---- MODULE Spec2Model ----
(***************************************************************************)
(* Model of draw_projections_on_image (src/src/functions.py, lines 43-76). *)
(*                                                                         *)
(* One call of the function is a run of the state machine: the arguments   *)
(* are chosen in Init, then the preprocessing, the two drawing loops and   *)
(* the save are taken one step at a time.                                  *)
(*                                                                         *)
(* Numbers: u, v and z are floating point in the program.  The model keeps *)
(* them in HALF units (the integer 3 stands for 1.5), so that int(), the   *)
(* half-to-even rounding of numpy and the comparisons against the image    *)
(* size are computed as the program computes them.                         *)
(***************************************************************************)
EXTENDS Integers, Sequences, FiniteSets

\* ------------------------------------------------------------------ bounds

\* Largest number of points in the projected point set given by the caller.
MaxPts == 3

\* Largest number of entries of the indexes argument.
MaxIdx == 2

\* image.shape of the caller's image: img_w columns, img_h rows.
ImgW == 3

ImgH == 2

\* ------------------------------------------------------- program constants

\* cm.get_cmap("rainbow_r", lut=100): the palette has 100 entries.
LutSize == 100

\* ------------------------------------------------------------------- state

VARIABLES
    in_uvz,      \* the velo_uvz argument as the caller passed it (never changed)
    preprocess,  \* the preprocess argument
    indexes,     \* the indexes argument: [given |-> FALSE] is None
    velo_uvz,    \* the local velo_uvz: <<u, v, z>>, three rows of equal length
    image,       \* the caller's image buffer, mutated in place
    pc,          \* position in the function body
    i,           \* position of the running for loop
    draws,       \* the cv2.circle calls issued so far, in order
    file,        \* the content at save_path: <<>> until image.save writes it
    saves,       \* number of image.save calls
    err          \* the exception that left the function, "none" if none

vars == <<in_uvz, preprocess, indexes, velo_uvz, image, pc, i, draws, file, saves, err>>

\* ------------------------------------------------------------- conversions

\* int(x) of Python on a float: truncation towards zero (x in half units).
PyInt(x) == IF x >= 0 THEN x \div 2 ELSE -((-x) \div 2)

\* z.round() of numpy: round half to even (z in half units), then int().
NpRound(z) ==
    LET fl == z \div 2
    IN  IF z % 2 = 0 THEN fl
        ELSE IF fl % 2 = 0 THEN fl ELSE fl + 1

\* rainbow_r(n) for an integer n: an index below 0 takes the "under" colour,
\* which is the first palette entry, an index above the palette the "over"
\* colour, which is the last one.  A colour is named by its palette entry.
color_map(z) ==
    LET n == NpRound(z)
    IN  IF n < 0 THEN 0 ELSE IF n > LutSize - 1 THEN LutSize - 1 ELSE n

\* ------------------------------------------------------------------ arrays

\* len(u) of the array <<u, v, z>>.
NumPts(arr) == Len(arr[1])

\* One row with the positions of the set S deleted, order kept.
DeleteRow(row, S) ==
    LET F[k \in 0..Len(row)] ==
            IF k = 0 THEN <<>>
            ELSE IF k \in S THEN F[k - 1] ELSE Append(F[k - 1], row[k])
    IN  F[Len(row)]

\* A plausible slip: the depth row is cut by length instead of by the mask.
NpDelete_Desync(arr, S) ==
    <<DeleteRow(arr[1], S), DeleteRow(arr[2], S),
      SubSeq(arr[3], 1, Len(arr[3]) - Cardinality(S \cap (1..Len(arr[3]))))>>

\* np.delete(arr, S, axis=1): the columns of S are removed from every row.
NpDelete(arr, S) ==
    <<DeleteRow(arr[1], S), DeleteRow(arr[2], S), DeleteRow(arr[3], S)>>

\* np.where(velo_uvz[2, :] < 0)[0]
NegativeDepth(arr) == {k \in 1..NumPts(arr) : arr[3][k] < 0}

\* u_out | v_out: the comparison is strict, so u == img_w and v == img_h pass.
Outliers(arr, img_w, img_h) ==
    {k \in 1..NumPts(arr) :
        \/ arr[1][k] < 0 \/ arr[1][k] > 2 * img_w
        \/ arr[2][k] < 0 \/ arr[2][k] > 2 * img_h}

\* The preprocess block: negative depths first, then the outliers of the rest.
Filtered(arr, img_w, img_h) ==
    LET pos == NpDelete(arr, NegativeDepth(arr))
    IN  NpDelete(pos, Outliers(pos, img_w, img_h))

\* u[idx] of numpy raises IndexError unless -n <= idx < n.
ValidIndex(idx, n) == -n <= idx /\ idx < n

\* The 0-based position u[idx] reads: a negative idx counts from the end.
Position(idx, n) == IF idx < 0 THEN idx + n ELSE idx

GetItem(row, idx) == row[Position(idx, Len(row)) + 1]

\* ------------------------------------------------------------------- image

Pixels == (0..(ImgW - 1)) \X (0..(ImgH - 1))

\* The image the caller passes: no pixel has a palette colour yet.
InputImage == [p \in Pixels |-> LutSize]

\* cv2.circle(image, (cx, cy), 1, col, -1): the filled disc of radius 1,
\* clipped to the image; every pixel of it is overwritten.
Circle(img, cx, cy, col) ==
    [p \in Pixels |->
        IF (p[1] - cx) * (p[1] - cx) + (p[2] - cy) * (p[2] - cy) <= 1
        THEN col ELSE img[p]]

\* The circle of the point u[idx], v[idx], z[idx].
DrawPoint(img, arr, idx) ==
    Circle(img, PyInt(GetItem(arr[1], idx)), PyInt(GetItem(arr[2], idx)),
           color_map(GetItem(arr[3], idx)))

\* The cv2.circle call as logged: the index asked for, the point it read.
DrawRecord(arr, idx) ==
    [req   |-> idx,
     pt    |-> Position(idx, NumPts(arr)),
     x     |-> PyInt(GetItem(arr[1], idx)),
     y     |-> PyInt(GetItem(arr[2], idx)),
     color |-> color_map(GetItem(arr[3], idx))]

\* Image.fromarray(image): the same pixels.
FromArray(img) == [p \in Pixels |-> img[p]]

\* ----------------------------------------------------------------- control

\* A slip: "indexes is not None" in place of the truth test.
Truthy_IsNotNone(ix) == ix.given

\* "if indexes": None and an empty collection are both false.
Truthy(ix) == ix.given /\ Len(ix.items) > 0

InItems(k, ix) == \E j \in 1..Len(ix.items) : ix.items[j] = k

\* A slip: the membership test is dropped.
Selected_NoMembership(k, ix) == Truthy(ix)

\* "indexes and i in indexes"
Selected(k, ix) == Truthy(ix) /\ InItems(k, ix)

\* A slip: range(len(u) + 1).
RangeLen_OffByOne(n) == n + 1

\* range(len(u))
RangeLen(n) == n

\* A slip: the exception is swallowed and the function goes on to save.
RaisePc_Swallowed == "save"

\* No try/except: an exception leaves the function at once.
RaisePc == "error"

\* ------------------------------------------------------------------ inputs

\* The points a caller may pass (half units): two inside the image whose
\* circles overlap, one on each upper edge, one of negative depth, one outside.
PointChoices ==
    { <<1, 1, 1>>,                  \* u 0.5   v 0.5   z 0.5
      <<3, 1, 3>>,                  \* u 1.5   v 0.5   z 1.5
      <<2 * ImgW, 1, 7>>,           \* u == img_w
      <<1, 2 * ImgH, 4>>,           \* v == img_h
      <<1, 1, -2>>,                 \* z < 0
      <<-1, 2 * ImgH + 1, 5>> }     \* u < 0 and v > img_h

PointSeqs == UNION {[1..n -> PointChoices] : n \in 0..MaxPts}

\* The 3 x N array of a sequence of points.
AsArray(pts) ==
    <<[k \in 1..Len(pts) |-> pts[k][1]],
      [k \in 1..Len(pts) |-> pts[k][2]],
      [k \in 1..Len(pts) |-> pts[k][3]]>>

IdxVals == (-1)..(MaxPts - 1)

\* indexes is a set or a list of distinct values; its iteration order is any.
IdxSeqs ==
    UNION {{s \in [1..n -> IdxVals] : \A a, b \in 1..n : a # b => s[a] # s[b]}
           : n \in 0..MaxIdx}

IndexChoices ==
    {[given |-> FALSE, items |-> <<>>]} \cup {[given |-> TRUE, items |-> s] : s \in IdxSeqs}

\* ----------------------------------------------------------- state machine

Init ==
    /\ in_uvz \in {AsArray(pts) : pts \in PointSeqs}
    /\ preprocess \in BOOLEAN
    /\ indexes \in IndexChoices
    /\ velo_uvz = in_uvz
    /\ image = InputImage
    /\ pc = "start"
    /\ i = 0
    /\ draws = <<>>
    /\ file = <<>>
    /\ saves = 0
    /\ err = "none"

\* Lines 45-58.
Preprocess ==
    /\ pc = "start"
    /\ velo_uvz' = IF preprocess THEN Filtered(velo_uvz, ImgW, ImgH) ELSE velo_uvz
    /\ pc' = "loop1"
    /\ i' = 0
    /\ UNCHANGED <<in_uvz, preprocess, indexes, image, draws, file, saves, err>>

\* One u[idx], v[idx], z[idx] and cv2.circle: the read raises IndexError
\* before anything is drawn, else the circle is drawn.
DrawOrRaise(idx) ==
    IF ValidIndex(idx, NumPts(velo_uvz))
    THEN /\ image' = DrawPoint(image, velo_uvz, idx)
         /\ draws' = Append(draws, DrawRecord(velo_uvz, idx))
         /\ i' = i + 1
         /\ UNCHANGED <<pc, err>>
    ELSE /\ pc' = RaisePc
         /\ err' = "IndexError"
         /\ UNCHANGED <<image, draws, i>>

\* Lines 63-65, one iteration.
Loop1Step ==
    /\ pc = "loop1"
    /\ i < RangeLen(NumPts(velo_uvz))
    /\ IF Selected(i, indexes)
       THEN DrawOrRaise(i)
       ELSE /\ i' = i + 1
            /\ UNCHANGED <<image, draws, pc, err>>
    /\ UNCHANGED <<in_uvz, preprocess, indexes, velo_uvz, file, saves>>

Loop1End ==
    /\ pc = "loop1"
    /\ i >= RangeLen(NumPts(velo_uvz))
    /\ pc' = "loop2"
    /\ i' = 0
    /\ UNCHANGED <<in_uvz, preprocess, indexes, velo_uvz, image, draws, file, saves, err>>

\* Lines 67-69, one iteration: "for i in indexes", in the collection's order.
IndexesStep ==
    /\ pc = "loop2"
    /\ Truthy(indexes)
    /\ i < Len(indexes.items)
    /\ DrawOrRaise(indexes.items[i + 1])
    /\ UNCHANGED <<in_uvz, preprocess, indexes, velo_uvz, file, saves>>

\* Lines 70-72, one iteration.
RangeStep ==
    /\ pc = "loop2"
    /\ ~Truthy(indexes)
    /\ i < RangeLen(NumPts(velo_uvz))
    /\ DrawOrRaise(i)
    /\ UNCHANGED <<in_uvz, preprocess, indexes, velo_uvz, file, saves>>

Loop2End ==
    /\ pc = "loop2"
    /\ IF Truthy(indexes) THEN i >= Len(indexes.items)
                          ELSE i >= RangeLen(NumPts(velo_uvz))
    /\ pc' = "save"
    /\ UNCHANGED <<in_uvz, preprocess, indexes, velo_uvz, image, i, draws, file, saves, err>>

\* Lines 75-76.
Save ==
    /\ pc = "save"
    /\ file' = <<FromArray(image)>>
    /\ saves' = saves + 1
    /\ pc' = "done"
    /\ UNCHANGED <<in_uvz, preprocess, indexes, velo_uvz, image, i, draws, err>>

Next ==
    \/ Preprocess
    \/ Loop1Step
    \/ Loop1End
    \/ IndexesStep
    \/ RangeStep
    \/ Loop2End
    \/ Save

Spec == Init /\ [][Next]_vars

\* ---------------------------------------------------------------- helpers

\* len(u) at drawing time.
N == NumPts(velo_uvz)

\* Lines 70-72 as a whole: every point drawn once, in increasing index order.
RECURSIVE RenderFrom(_, _, _)
RenderFrom(img, arr, k) ==
    IF k >= NumPts(arr) THEN img
    ELSE RenderFrom(DrawPoint(img, arr, k), arr, k + 1)

\* The image a call with indexes = None leaves for the same points.
NoneImage == RenderFrom(InputImage, velo_uvz, 0)

\* The points drawn so far, in the order of the cv2.circle calls.
DrawnPts == [j \in 1..Len(draws) |-> draws[j].pt]

\* The pixel p lies in the circle of the logged draw d.
Covers(d, p) == (p[1] - d.x) * (p[1] - d.x) + (p[2] - d.y) * (p[2] - d.y) <= 1

\* The caller's point k (1-based column) is one the preprocess block removes.
DroppedByFilter(k) ==
    /\ preprocess
    /\ \/ in_uvz[3][k] < 0
       \/ in_uvz[1][k] < 0 \/ in_uvz[1][k] > 2 * ImgW
       \/ in_uvz[2][k] < 0 \/ in_uvz[2][k] > 2 * ImgH

\* ------------------------------------------------------------------ claims

\* C1: after the preprocessing step every remaining point has z >= 0,
\* 0 <= u < img_w and 0 <= v < img_h, the upper bounds exclusive.
C1_FilterExclusive ==
    (preprocess /\ pc # "start") =>
        \A k \in 1..N :
            /\ velo_uvz[3][k] >= 0
            /\ 0 <= velo_uvz[1][k] /\ velo_uvz[1][k] < 2 * ImgW
            /\ 0 <= velo_uvz[2][k] /\ velo_uvz[2][k] < 2 * ImgH

\* C2: preprocessing keeps u, v, z synchronized and in order: the three rows
\* have equal length and the surviving columns are, for some set S of input
\* positions, exactly the input's columns of S in their original order.
C2_FilterSynchronized ==
    (preprocess /\ pc # "start") =>
        /\ Len(velo_uvz[1]) = Len(velo_uvz[2])
        /\ Len(velo_uvz[2]) = Len(velo_uvz[3])
        /\ \E S \in SUBSET (1..NumPts(in_uvz)) :
              /\ Cardinality(S) = Len(velo_uvz[1])
              /\ \A k \in S : \A r \in 1..3 :
                    velo_uvz[r][Cardinality({j \in S : j <= k})] = in_uvz[r][k]

\* C2 witness: a point was removed in front of a surviving one.
C2_Witness ==
    /\ preprocess /\ pc = "done"
    /\ N >= 1 /\ N < NumPts(in_uvz)
    /\ DroppedByFilter(1)

\* C3: with indexes holding exactly 0..N-1, in whatever iteration order, the
\* final image is the one a call with indexes = None leaves.
C3_FullIndexesSameAsNone ==
    (/\ pc = "done" /\ indexes.given /\ N >= 1
     /\ Len(indexes.items) = N
     /\ \A k \in 0..(N - 1) : InItems(k, indexes))
        => image = NoneImage

\* C4 as claimed: with zero points at drawing time nothing is drawn and the
\* call saves an output identical to the input, whatever indexes is.
C4_EmptySavesInput ==
    (N = 0 /\ pc \in {"done", "error"}) =>
        /\ draws = <<>>
        /\ file = <<InputImage>>

\* C4 as amended: with zero points at drawing time nothing is drawn and the
\* image is untouched, whatever indexes is; with indexes absent or empty the
\* call raises nothing and what it saves is the input image; with a non-empty
\* indexes nothing is ever saved and the call ends in IndexError.
C4_EmptyNoDraw ==
    (N = 0 /\ pc # "start") =>
        /\ draws = <<>>
        /\ image = InputImage
        /\ ~Truthy(indexes) =>
              /\ err = "none" /\ pc # "error"
              /\ pc = "done" => file = <<InputImage>>
        /\ Truthy(indexes) =>
              /\ saves = 0 /\ file = <<>> /\ pc \notin {"save", "done"}
              /\ pc = "error" => err = "IndexError"

\* C4 witness: preprocessing removed every point and the input was saved.
C4_Witness ==
    /\ pc = "done" /\ N = 0 /\ NumPts(in_uvz) > 0
    /\ file = <<InputImage>>

\* C4 second witness state, the IndexError end of the amended claim.
C4_WitnessError ==
    pc = "error" /\ N = 0 /\ NumPts(in_uvz) > 0 /\ Truthy(indexes)

C6_EachSelectedOnce ==
    pc = "done" =>
        IF Truthy(indexes) THEN Len(draws) = Len(indexes.items)
        ELSE Len(draws) = N

\* C7: circles are drawn in increasing point-index order, and a pixel covered
\* by several drawn points ends with the colour of the highest-index one.
C7_IncreasingOrder ==
    /\ \A a, b \in 1..Len(draws) : a < b => draws[a].pt <= draws[b].pt
    /\ pc = "done" =>
          \A p \in Pixels : \A a \in 1..Len(draws) :
              (/\ Covers(draws[a], p)
               /\ \A b \in 1..Len(draws) : Covers(draws[b], p) => draws[b].pt <= draws[a].pt)
                  => image[p] = draws[a].color

\* C8: an indexes value outside [0, N), N counted after preprocessing, makes
\* the call fail with IndexError: the call does not get past the drawing and
\* no circle is drawn for such a value.
C8_OutOfRangeRaises ==
    (Truthy(indexes) /\ pc # "start") =>
        /\ \A j \in 1..Len(draws) : 0 <= draws[j].req /\ draws[j].req < N
        /\ pc \in {"save", "done"} =>
              \A j \in 1..Len(indexes.items) :
                  0 <= indexes.items[j] /\ indexes.items[j] < N

\* The loop of lines 67-72 has run to its end.
DrawingComplete ==
    IF Truthy(indexes) THEN i >= Len(indexes.items) ELSE i >= N

\* C9: the output file is written at most once and only after all drawing:
\* it exists only at the end of a call that raised nothing and holds the
\* final image; after an exception there is no file; and once it is written
\* nothing is drawn any more.
C9_SavedOnlyAtEnd ==
    /\ [](/\ saves <= 1
          /\ saves = 0 => file = <<>>
          /\ saves = 1 => (/\ pc = "done" /\ err = "none"
                           /\ file = <<image>> /\ DrawingComplete)
          /\ (err # "none" \/ pc = "error") => (saves = 0 /\ file = <<>>))
    /\ [][saves # saves' => (pc = "save" /\ DrawingComplete /\ pc' = "done")]_vars
    /\ [][saves >= 1 => (draws' = draws /\ image' = image /\ file' = file)]_vars

\* C9 witness: draws were issued and the drawn image was saved.
C9_Witness ==
    /\ pc = "done" /\ saves = 1 /\ Len(draws) >= 2
    /\ file = <<image>> /\ image # InputImage

\* C9 second witness state: circles drawn, then IndexError, no file.
C9_WitnessError ==
    pc = "error" /\ Len(draws) >= 1 /\ image # InputImage /\ file = <<>>

\* C10: an indexes that is present but empty is treated like an absent one:
\* whenever indexes is None or empty, every point of the preprocessed set is
\* drawn, once and in order, and the final image is the one of indexes = None.
C10_EmptyLikeNone ==
    (pc = "done" /\ ~(indexes.given /\ Len(indexes.items) > 0)) =>
        /\ DrawnPts = [j \in 1..N |-> j - 1]
        /\ image = NoneImage

\* C10 witness: an empty indexes, and the image was drawn on.
C10_Witness ==
    /\ pc = "done" /\ indexes.given /\ indexes.items = <<>>
    /\ N >= 2 /\ Len(draws) = N /\ image # InputImage

====
